---- MODULE Spec2Model ----
(***************************************************************************)
(* The inventory server (src/server.ts): an Express application over one   *)
(* better-sqlite3 connection.  Every handler is synchronous JavaScript, so *)
(* the event loop runs each request to completion before the next one:     *)
(* one action of this module is one whole request handler.  The SQLite     *)
(* store is the variable db; the SQL statements are operators that return  *)
(* a result record, a failed one standing for a thrown SqliteError.  A     *)
(* handler is an operator from the store and the request to the store      *)
(* afterwards and the HTTP response.                                       *)
(***************************************************************************)
EXTENDS Integers, Sequences, FiniteSets, TLC

VARIABLES
    db,       \* the SQLite database: four tables and sqlite_sequence
    clock,    \* the value CURRENT_TIMESTAMP had at the latest insert (seconds)
    fetches,  \* the browser clients' POST /api/transactions calls, pending or settled
    client,   \* one browser client: the React state fetchData fills and its calls in flight
    camera    \* that client's camera: isCameraActive, the effect's runs and their streams

vars == <<db, clock, fetches, client, camera>>

-----------------------------------------------------------------------------
(* Bounds of the exploration *)

\* how many transaction rows may ever be inserted
MaxTx == 2
\* how many rows may ever be inserted, per table, after the seed
MaxNew == 1

\* how many transaction rows may ever be inserted where the statistics are read
MaxStatsTx == 6
\* handleTransaction calls of the browser client
MaxClicks == 2
\* startCamera calls of the browser client
MaxStarts == 3

-----------------------------------------------------------------------------
(* SQL values and the schema *)

\* SQL NULL in an INTEGER column that holds row ids (AUTOINCREMENT ids start at 1)
NULL == 0

TransactionTypes == {"IN", "OUT"}

EmptyDb ==
    [categories |-> {}, locations |-> {}, materials |-> {}, transactions |-> {},
     seq |-> [categories |-> 0, locations |-> 0, materials |-> 0, transactions |-> 0]]

\* the result of running one prepared statement
Ok(d, rowid, changes) == [ok |-> TRUE, db |-> d, code |-> "", rowid |-> rowid, changes |-> changes]
Err(d, code) == [ok |-> FALSE, db |-> d, code |-> code, rowid |-> 0, changes |-> 0]

\* INTEGER PRIMARY KEY AUTOINCREMENT: one more than the largest id the table ever held
NextRowid(d, table) == d.seq[table] + 1

HasId(rows, id) == \E r \in rows : r.id = id

\* (mutation) the foreign_keys pragma is left off: nothing is enforced
ForeignKeyOff(parentRows, ref) == TRUE

\* FOREIGN KEY (col) REFERENCES parent (id), with foreign_keys = ON: NULL or a parent row
ForeignKeyHolds(parentRows, ref) == ref = NULL \/ HasId(parentRows, ref)

-----------------------------------------------------------------------------
(* Prepared statements *)

\* (mutation) the name column is not UNIQUE
InsertCategoryNotUnique(d, name) ==
    LET id == NextRowid(d, "categories") IN
    Ok([d EXCEPT !.categories = @ \cup {[id |-> id, name |-> name]},
                 !.seq.categories = id], id, 1)

\* INSERT INTO categories (name) VALUES (?)
InsertCategory(d, name) ==
    IF \E c \in d.categories : c.name = name
    THEN Err(d, "SQLITE_CONSTRAINT_UNIQUE")
    ELSE LET id == NextRowid(d, "categories") IN
         Ok([d EXCEPT !.categories = @ \cup {[id |-> id, name |-> name]},
                      !.seq.categories = id], id, 1)

\* INSERT INTO locations (name) VALUES (?)
InsertLocation(d, name) ==
    IF \E l \in d.locations : l.name = name
    THEN Err(d, "SQLITE_CONSTRAINT_UNIQUE")
    ELSE LET id == NextRowid(d, "locations") IN
         Ok([d EXCEPT !.locations = @ \cup {[id |-> id, name |-> name]},
                      !.seq.locations = id], id, 1)

\* (mutation) an UPDATE that finds no row inserts one: INSERT OR REPLACE
UpdateCategoryUpsert(d, name, id) ==
    IF \E c \in d.categories : c.id # id /\ c.name = name
    THEN Err(d, "SQLITE_CONSTRAINT_UNIQUE")
    ELSE Ok([d EXCEPT !.categories =
                {c \in @ : c.id # id} \cup {[id |-> id, name |-> name]}], id, 1)

\* UPDATE categories SET name = ? WHERE id = ?
UpdateCategory(d, name, id) ==
    IF ~HasId(d.categories, id) THEN Ok(d, 0, 0)
    ELSE IF \E c \in d.categories : c.id # id /\ c.name = name
    THEN Err(d, "SQLITE_CONSTRAINT_UNIQUE")
    ELSE Ok([d EXCEPT !.categories =
                {IF c.id = id THEN [c EXCEPT !.name = name] ELSE c : c \in @}], 0, 1)

\* (mutation) the rename is carried to the materials that hold the old name
UpdateLocationCascade(d, name, id) ==
    IF ~HasId(d.locations, id) THEN Ok(d, 0, 0)
    ELSE IF \E l \in d.locations : l.id # id /\ l.name = name
    THEN Err(d, "SQLITE_CONSTRAINT_UNIQUE")
    ELSE LET old == (CHOOSE l \in d.locations : l.id = id).name IN
         Ok([d EXCEPT !.locations =
                {IF l.id = id THEN [l EXCEPT !.name = name] ELSE l : l \in @},
                      !.materials =
                {IF m.location = old THEN [m EXCEPT !.location = name] ELSE m : m \in @}],
            0, 1)

\* (mutation) the name column is not UNIQUE
UpdateLocationNotUnique(d, name, id) ==
    Ok([d EXCEPT !.locations =
           {IF l.id = id THEN [l EXCEPT !.name = name] ELSE l : l \in @}], 0,
       Cardinality({l \in d.locations : l.id = id}))

\* UPDATE locations SET name = ? WHERE id = ?
UpdateLocation(d, name, id) ==
    IF ~HasId(d.locations, id) THEN Ok(d, 0, 0)
    ELSE IF \E l \in d.locations : l.id # id /\ l.name = name
    THEN Err(d, "SQLITE_CONSTRAINT_UNIQUE")
    ELSE Ok([d EXCEPT !.locations =
                {IF l.id = id THEN [l EXCEPT !.name = name] ELSE l : l \in @}], 0, 1)

\* (mutation) the WHERE clause reads id >= ?
DeleteCategoryFrom(d, id) ==
    IF \E m \in d.materials : m.category_id = id /\ HasId(d.categories, id)
    THEN Err(d, "SQLITE_CONSTRAINT_FOREIGNKEY")
    ELSE Ok([d EXCEPT !.categories = {c \in @ : c.id < id}], 0,
            Cardinality({c \in d.categories : c.id >= id}))

\* DELETE FROM categories WHERE id = ?   (materials.category_id references it)
DeleteCategory(d, id) ==
    IF \E m \in d.materials : m.category_id = id /\ HasId(d.categories, id)
    THEN Err(d, "SQLITE_CONSTRAINT_FOREIGNKEY")
    ELSE Ok([d EXCEPT !.categories = {c \in @ : c.id # id}], 0,
            Cardinality({c \in d.categories : c.id = id}))

\* DELETE FROM locations WHERE id = ?
DeleteLocation(d, id) ==
    Ok([d EXCEPT !.locations = {l \in @ : l.id # id}], 0,
       Cardinality({l \in d.locations : l.id = id}))

\* (mutation) the stock column is written from the min_stock parameter
InsertMaterialStockFromMin(d, name, category_id, unit, stock, min_stock, location) ==
    IF ~ForeignKeyHolds(d.categories, category_id)
    THEN Err(d, "SQLITE_CONSTRAINT_FOREIGNKEY")
    ELSE LET id == NextRowid(d, "materials") IN
         Ok([d EXCEPT !.materials = @ \cup
                 {[id |-> id, name |-> name, category_id |-> category_id, unit |-> unit,
                   stock |-> min_stock, min_stock |-> min_stock, location |-> location]},
                      !.seq.materials = id], id, 1)

\* INSERT INTO materials (name, category_id, unit, stock, min_stock, location) VALUES (...)
InsertMaterial(d, name, category_id, unit, stock, min_stock, location) ==
    IF ~ForeignKeyHolds(d.categories, category_id)
    THEN Err(d, "SQLITE_CONSTRAINT_FOREIGNKEY")
    ELSE LET id == NextRowid(d, "materials") IN
         Ok([d EXCEPT !.materials = @ \cup
                 {[id |-> id, name |-> name, category_id |-> category_id, unit |-> unit,
                   stock |-> stock, min_stock |-> min_stock, location |-> location]},
                      !.seq.materials = id], id, 1)

\* stock INTEGER DEFAULT 0: the value of an insert that names no stock
DefaultStock == 0

\* (mutation) materials.category_id is not a foreign key
UpdateMaterialNoForeignKey(d, name, category_id, unit, min_stock, location, id) ==
    Ok([d EXCEPT !.materials =
           {IF m.id = id
            THEN [m EXCEPT !.name = name, !.category_id = category_id, !.unit = unit,
                           !.min_stock = min_stock, !.location = location]
            ELSE m : m \in @}], 0,
       Cardinality({m \in d.materials : m.id = id}))

\* (mutation) the UPDATE also writes the stock column, from the column default
UpdateMaterialWithStock(d, name, category_id, unit, min_stock, location, id) ==
    IF ~HasId(d.materials, id) THEN Ok(d, 0, 0)
    ELSE IF ~ForeignKeyHolds(d.categories, category_id)
    THEN Err(d, "SQLITE_CONSTRAINT_FOREIGNKEY")
    ELSE Ok([d EXCEPT !.materials =
                {IF m.id = id
                 THEN [m EXCEPT !.name = name, !.category_id = category_id, !.unit = unit,
                                !.stock = DefaultStock,
                                !.min_stock = min_stock, !.location = location]
                 ELSE m : m \in @}], 0, 1)

\* UPDATE materials SET name = ?, category_id = ?, unit = ?, min_stock = ?, location = ? WHERE id = ?
UpdateMaterial(d, name, category_id, unit, min_stock, location, id) ==
    IF ~HasId(d.materials, id) THEN Ok(d, 0, 0)
    ELSE IF ~ForeignKeyHolds(d.categories, category_id)
    THEN Err(d, "SQLITE_CONSTRAINT_FOREIGNKEY")
    ELSE Ok([d EXCEPT !.materials =
                {IF m.id = id
                 THEN [m EXCEPT !.name = name, !.category_id = category_id, !.unit = unit,
                                !.min_stock = min_stock, !.location = location]
                 ELSE m : m \in @}], 0, 1)

\* DELETE FROM materials WHERE id = ?   (transactions.material_id references it)
DeleteMaterial(d, id) ==
    IF \E t \in d.transactions : t.material_id = id /\ HasId(d.materials, id)
    THEN Err(d, "SQLITE_CONSTRAINT_FOREIGNKEY")
    ELSE Ok([d EXCEPT !.materials = {m \in @ : m.id # id}], 0,
            Cardinality({m \in d.materials : m.id = id}))

\* (mutation) the WHERE clause reads material_id = ? OR material_id IS NULL
DeleteTransactionsOfOrNull(d, id) ==
    Ok([d EXCEPT !.transactions = {t \in @ : t.material_id # id /\ t.material_id # NULL}], 0,
       Cardinality({t \in d.transactions : t.material_id = id \/ t.material_id = NULL}))

\* (mutation) the DELETE has no WHERE clause: every row goes
DeleteTransactionsAll(d, id) ==
    Ok([d EXCEPT !.transactions = {}], 0, Cardinality(d.transactions))

\* DELETE FROM transactions WHERE material_id = ?
DeleteTransactionsOf(d, id) ==
    Ok([d EXCEPT !.transactions = {t \in @ : t.material_id # id}], 0,
       Cardinality({t \in d.transactions : t.material_id = id}))

\* (mutation) the type column has no CHECK
InsertTransactionUnchecked(d, material_id, type, quantity, notes, now) ==
    IF ~ForeignKeyHolds(d.materials, material_id)
    THEN Err(d, "SQLITE_CONSTRAINT_FOREIGNKEY")
    ELSE LET id == NextRowid(d, "transactions") IN
         Ok([d EXCEPT !.transactions = @ \cup
                 {[id |-> id, material_id |-> material_id, type |-> type,
                   quantity |-> quantity, date |-> now, notes |-> notes]},
                      !.seq.transactions = id], id, 1)

\* (mutation) the notes parameter is not bound: the row keeps empty notes
InsertTransactionNoNotes(d, material_id, type, quantity, notes, now) ==
    IF type \notin TransactionTypes THEN Err(d, "SQLITE_CONSTRAINT_CHECK")
    ELSE IF ~ForeignKeyHolds(d.materials, material_id)
    THEN Err(d, "SQLITE_CONSTRAINT_FOREIGNKEY")
    ELSE LET id == NextRowid(d, "transactions") IN
         Ok([d EXCEPT !.transactions = @ \cup
                 {[id |-> id, material_id |-> material_id, type |-> type,
                   quantity |-> quantity, date |-> now, notes |-> ""]},
                      !.seq.transactions = id], id, 1)

\* INSERT INTO transactions (material_id, type, quantity, notes) VALUES (?, ?, ?, ?)
\* date takes its default, CURRENT_TIMESTAMP
InsertTransaction(d, material_id, type, quantity, notes, now) ==
    IF type \notin TransactionTypes THEN Err(d, "SQLITE_CONSTRAINT_CHECK")
    ELSE IF ~ForeignKeyHolds(d.materials, material_id)
    THEN Err(d, "SQLITE_CONSTRAINT_FOREIGNKEY")
    ELSE LET id == NextRowid(d, "transactions") IN
         Ok([d EXCEPT !.transactions = @ \cup
                 {[id |-> id, material_id |-> material_id, type |-> type,
                   quantity |-> quantity, date |-> now, notes |-> notes]},
                      !.seq.transactions = id], id, 1)

\* (mutation) the stock is floored at zero
UpdateStockFloored(d, adjustment, material_id) ==
    Ok([d EXCEPT !.materials =
           {IF m.id = material_id /\ material_id # NULL
            THEN [m EXCEPT !.stock = IF @ + adjustment < 0 THEN 0 ELSE @ + adjustment]
            ELSE m : m \in @}], 0,
       Cardinality({m \in d.materials : m.id = material_id /\ material_id # NULL}))

\* (mutation) the stock is written from a value read earlier, not incremented in place
UpdateStockOverwrite(d, adjustment, material_id) ==
    Ok([d EXCEPT !.materials =
           {IF m.id = material_id /\ material_id # NULL
            THEN [m EXCEPT !.stock = adjustment] ELSE m : m \in @}], 0,
       Cardinality({m \in d.materials : m.id = material_id /\ material_id # NULL}))

\* UPDATE materials SET stock = stock + ? WHERE id = ?   (id = NULL matches no row)
UpdateStock(d, adjustment, material_id) ==
    Ok([d EXCEPT !.materials =
           {IF m.id = material_id /\ material_id # NULL
            THEN [m EXCEPT !.stock = @ + adjustment] ELSE m : m \in @}], 0,
       Cardinality({m \in d.materials : m.id = material_id /\ material_id # NULL}))

\* (mutation) the usage query finds nothing
LocationUsageNone(d, name) == 0

\* SELECT COUNT(*) FROM materials WHERE location = ?
LocationUsage(d, name) == Cardinality({m \in d.materials : m.location = name})

\* SELECT COUNT(*) FROM materials WHERE category_id = ?
CategoryUsage(d, id) == Cardinality({m \in d.materials : m.category_id = id})

\* a statement that the store fails to run (disk full, I/O error): run() throws
Run(failed, result, d) == IF failed THEN Err(d, "SQLITE_IOERR") ELSE result

\* db.transaction(fn)(): BEGIN, fn, COMMIT; ROLLBACK and rethrow when fn throws
Transaction(before, result) ==
    IF result.ok THEN result ELSE [result EXCEPT !.db = before]

-----------------------------------------------------------------------------
(* initDb: the seed of an empty database *)

SeedCategories ==
    <<"Komponen Elektronika", "Kabel & Konektor", "Alat Ukur", "Modul Praktikum", "Lain-lain">>

SeedLocations ==
    <<"Rak A1", "Rak A2", "Rak B1", "Rak B2", "Rak C1", "Lemari Alat", "Meja Kerja", "Gudang">>

SeedMaterial(name, category_id, unit, stock, min_stock, location) ==
    [name |-> name, category_id |-> category_id, unit |-> unit, stock |-> stock,
     min_stock |-> min_stock, location |-> location]

SeedMaterials ==
    << SeedMaterial("Resistor 220 Ohm", 1, "Pcs", 150, 50, "Rak A1"),
       SeedMaterial("Kabel Jumper Male-Male", 2, "Set", 20, 10, "Rak B2"),
       SeedMaterial("Multimeter Digital", 3, "Unit", 12, 5, "Lemari Alat"),
       SeedMaterial("Arduino Uno R3", 4, "Unit", 8, 3, "Rak C1"),
       SeedMaterial("Solder 40W", 5, "Unit", 15, 5, "Meja Kerja") >>

\* [...].forEach(cat => insertCategory.run(cat)): the first throw ends the loop
RECURSIVE InsertCategories(_, _)
InsertCategories(r, names) ==
    IF ~r.ok \/ names = <<>> THEN r
    ELSE InsertCategories(InsertCategory(r.db, Head(names)), Tail(names))

RECURSIVE InsertLocations(_, _)
InsertLocations(r, names) ==
    IF ~r.ok \/ names = <<>> THEN r
    ELSE InsertLocations(InsertLocation(r.db, Head(names)), Tail(names))

RECURSIVE InsertMaterials(_, _)
InsertMaterials(r, ms) ==
    IF ~r.ok \/ ms = <<>> THEN r
    ELSE LET m == Head(ms) IN
         InsertMaterials(InsertMaterial(r.db, m.name, m.category_id, m.unit, m.stock,
                                        m.min_stock, m.location), Tail(ms))

\* initDb(): the tables exist; an empty categories table is seeded, statement by
\* statement and outside any transaction
initDb(d) ==
    IF Cardinality(d.categories) = 0
    THEN InsertMaterials(InsertLocations(InsertCategories(Ok(d, 0, 0), SeedCategories),
                                         SeedLocations), SeedMaterials)
    ELSE Ok(d, 0, 0)

-----------------------------------------------------------------------------
(* The request handlers: from the database and a request to the database
   afterwards and the response *)

Response(status, error, id, count) ==
    [status |-> status, error |-> error, id |-> id, count |-> count]

Success == Response(200, "", 0, 0)
Created(id) == Response(200, "", id, 0)
Failure(status, error) == Response(status, error, 0, 0)

Reply(d, res) == [db |-> d, res |-> res]

\* (mutation) the required fields are not tested
IsEmptyNever(text) == FALSE

\* JavaScript's !name for a string
IsEmpty(text) == text = ""

\* app.post("/api/locations")
HandlePostLocations(d, name) ==
    IF IsEmpty(name) THEN Reply(d, Failure(400, "Nama lokasi wajib diisi."))
    ELSE LET r == InsertLocation(d, name) IN
         IF r.ok THEN Reply(r.db, Created(r.rowid))
         ELSE IF r.code = "SQLITE_CONSTRAINT_UNIQUE"
         THEN Reply(r.db, Failure(400, "Nama lokasi sudah ada."))
         ELSE Reply(r.db, Failure(500, "Gagal menambah lokasi."))

\* app.put("/api/locations/:id")
HandlePutLocations(d, id, name) ==
    LET r == UpdateLocation(d, name, id) IN
    IF r.ok THEN Reply(r.db, Success)
    ELSE Reply(r.db, Failure(500, "Gagal memperbarui lokasi."))

\* app.delete("/api/locations/:id")
HandleDeleteLocations(d, id) ==
    IF ~HasId(d.locations, id) THEN Reply(d, Failure(404, "Lokasi tidak ditemukan."))
    ELSE LET location == CHOOSE l \in d.locations : l.id = id
             usage == LocationUsage(d, location.name)
         IN  IF usage > 0
             THEN Reply(d, Response(400, "Lokasi ini masih digunakan", 0, usage))
             ELSE LET r == DeleteLocation(d, id) IN
                  IF r.ok THEN Reply(r.db, Success)
                  ELSE Reply(r.db, Failure(500, "Gagal menghapus lokasi."))

\* app.post("/api/categories")
HandlePostCategories(d, name) ==
    IF IsEmpty(name) THEN Reply(d, Failure(400, "Nama kategori wajib diisi."))
    ELSE LET r == InsertCategory(d, name) IN
         IF r.ok THEN Reply(r.db, Created(r.rowid))
         ELSE IF r.code = "SQLITE_CONSTRAINT_UNIQUE"
         THEN Reply(r.db, Failure(400, "Nama kategori sudah ada."))
         ELSE Reply(r.db, Failure(500, "Gagal menambah kategori."))

\* app.put("/api/categories/:id")
HandlePutCategories(d, id, name) ==
    LET r == UpdateCategory(d, name, id) IN
    IF r.ok THEN Reply(r.db, Success)
    ELSE Reply(r.db, Failure(500, "Gagal memperbarui kategori."))

\* (mutation) the handler without its existence check
HandleDeleteCategoriesUnchecked(d, id) ==
    LET usage == CategoryUsage(d, id) IN
    IF usage > 0
    THEN Reply(d, Response(400, "Kategori ini masih digunakan", 0, usage))
    ELSE LET r == DeleteCategory(d, id) IN
         IF r.ok THEN Reply(r.db, Success)
         ELSE Reply(r.db, Failure(500, "Gagal menghapus kategori."))

\* app.delete("/api/categories/:id")
HandleDeleteCategories(d, id) ==
    IF ~HasId(d.categories, id) THEN Reply(d, Failure(404, "Kategori tidak ditemukan."))
    ELSE LET usage == CategoryUsage(d, id) IN
         IF usage > 0
         THEN Reply(d, Response(400, "Kategori ini masih digunakan", 0, usage))
         ELSE LET r == DeleteCategory(d, id) IN
              IF r.ok THEN Reply(r.db, Success)
              ELSE Reply(r.db, Failure(500, "Gagal menghapus kategori."))

\* app.post("/api/materials"); body = {name, category_id, unit, min_stock, location}
HandlePostMaterials(d, body) ==
    IF IsEmpty(body.name) \/ IsEmpty(body.unit)
    THEN Reply(d, Failure(400, "Nama dan Satuan wajib diisi."))
    ELSE LET r == InsertMaterial(d, body.name, body.category_id, body.unit, DefaultStock,
                                 body.min_stock, body.location) IN
         IF r.ok THEN Reply(r.db, Created(r.rowid))
         ELSE Reply(r.db, Failure(500, "Gagal membuat bahan baru."))

\* app.put("/api/materials/:id")
HandlePutMaterials(d, id, body) ==
    IF IsEmpty(body.name) \/ IsEmpty(body.unit)
    THEN Reply(d, Failure(400, "Nama dan Satuan wajib diisi."))
    ELSE LET r == UpdateMaterial(d, body.name, body.category_id, body.unit,
                                 body.min_stock, body.location, id) IN
         IF r.ok THEN Reply(r.db, Success)
         ELSE Reply(r.db, Failure(500, "Gagal memperbarui bahan."))

\* (mutation) the two DELETEs run outside db.transaction: nothing is rolled back
deleteOpUnwrapped(d, id, fault) ==
    LET s1 == Run(fault = 1, DeleteTransactionsOf(d, id), d)
    IN  IF s1.ok THEN Run(fault = 2, DeleteMaterial(s1.db, id), s1.db) ELSE s1

\* deleteOp: the two DELETEs of app.delete("/api/materials/:id"), in one transaction;
\* fault = k > 0: the k-th statement throws an I/O error
deleteOp(d, id, fault) ==
    LET s1 == Run(fault = 1, DeleteTransactionsOf(d, id), d)
        s2 == IF s1.ok THEN Run(fault = 2, DeleteMaterial(s1.db, id), s1.db) ELSE s1
    IN  Transaction(d, s2)

\* (mutation) the handler without its existence check
HandleDeleteMaterialsUnchecked(d, id, fault) ==
    LET r == deleteOp(d, id, fault) IN
    IF r.ok THEN Reply(r.db, Success)
    ELSE Reply(r.db, Failure(500, "Gagal menghapus bahan."))

\* app.delete("/api/materials/:id")
HandleDeleteMaterials(d, id, fault) ==
    IF ~HasId(d.materials, id) THEN Reply(d, Failure(404, "Bahan tidak ditemukan."))
    ELSE LET r == deleteOp(d, id, fault) IN
         IF r.ok THEN Reply(r.db, Success)
         ELSE Reply(r.db, Failure(500, "Gagal menghapus bahan."))

\* (mutation) the sign of an OUT movement is dropped
AdjustmentUnsigned(type, quantity) == quantity

\* const adjustment = type === 'IN' ? quantity : -quantity
Adjustment(type, quantity) == IF type = "IN" THEN quantity ELSE -quantity

\* (mutation) the two statements run outside db.transaction: nothing is rolled back
transactionUnwrapped(d, body, now, fault) ==
    LET s1 == Run(fault = 1,
                  InsertTransaction(d, body.material_id, body.type, body.quantity,
                                    body.notes, now), d)
    IN  IF s1.ok
        THEN Run(fault = 2,
                 UpdateStock(s1.db, IF body.type = "IN" THEN body.quantity ELSE -body.quantity,
                             body.material_id), s1.db)
        ELSE s1

\* transaction: the INSERT and the UPDATE of app.post("/api/transactions"), in one
\* transaction; fault = k > 0: the k-th statement throws an I/O error
transaction(d, body, now, fault) ==
    LET s1 == Run(fault = 1,
                  InsertTransaction(d, body.material_id, body.type, body.quantity,
                                    body.notes, now), d)
        s2 == IF s1.ok
              THEN Run(fault = 2,
                       UpdateStock(s1.db, Adjustment(body.type, body.quantity),
                                   body.material_id), s1.db)
              ELSE s1
    IN  Transaction(d, s2)

\* app.post("/api/transactions"); body = {material_id, type, quantity, notes}.
\* The handler has no try/catch: a throw reaches Express's error handler, which
\* answers 500 and, outside production, prints the error
HandlePostTransactions(d, body, now, fault) ==
    LET r == transaction(d, body, now, fault) IN
    IF r.ok THEN Reply(r.db, Success)
    ELSE Reply(r.db, Failure(500, r.code))

\* SELECT COUNT(*) as count FROM materials
TotalMaterials(d) == Cardinality(d.materials)

\* (mutation) the comparison reads stock < min_stock
LowStockStrict(d) == Cardinality({m \in d.materials : m.stock < m.min_stock})

\* SELECT COUNT(*) as count FROM materials WHERE stock <= min_stock
LowStock(d) == Cardinality({m \in d.materials : m.stock <= m.min_stock})

\* SELECT t.*, m.name as material_name FROM transactions t JOIN materials m ON t.material_id = m.id
JoinMaterials(d) ==
    {[id |-> t.id, material_id |-> t.material_id, type |-> t.type, quantity |-> t.quantity,
      date |-> t.date, notes |-> t.notes,
      material_name |-> (CHOOSE m \in d.materials : m.id = t.material_id).name] :
        t \in {x \in d.transactions : x.material_id # NULL /\ HasId(d.materials, x.material_id)}}

\* LIMIT 5
RecentLimit == 5

\* ORDER BY date DESC LIMIT n: the listings SQLite may return.  The next row is one
\* of the rows with the latest date; among rows of the same date (CURRENT_TIMESTAMP
\* counts seconds) SQL leaves the order open, so each of them may come next
RECURSIVE OrderByDateDesc(_, _)
OrderByDateDesc(rows, n) ==
    IF n = 0 \/ rows = {} THEN {<< >>}
    ELSE UNION {{<<t>> \o rest : rest \in OrderByDateDesc(rows \ {t}, n - 1)} :
                  t \in {x \in rows : \A y \in rows : y.date <= x.date}}

\* app.get("/api/stats"): the responses the handler may give; it writes nothing
HandleGetStats(d) ==
    {[totalMaterials |-> TotalMaterials(d), lowStock |-> LowStock(d),
      recentTransactions |-> recent] : recent \in OrderByDateDesc(JoinMaterials(d), RecentLimit)}

\* app.get("/api/categories"): SELECT * FROM categories
HandleGetCategories(d) == d.categories

\* app.get("/api/locations"): SELECT * FROM locations
HandleGetLocations(d) == d.locations

\* app.get("/api/materials"): SELECT m.*, c.name as category_name FROM materials m
\* LEFT JOIN categories c ON m.category_id = c.id; a material without a stored
\* category keeps its row, with a NULL category_name
HandleGetMaterials(d) ==
    {[id |-> m.id, name |-> m.name, category_id |-> m.category_id, unit |-> m.unit,
      stock |-> m.stock, min_stock |-> m.min_stock, location |-> m.location,
      category_name |-> IF m.category_id # NULL /\ HasId(d.categories, m.category_id)
                        THEN (CHOOSE c \in d.categories : c.id = m.category_id).name
                        ELSE NULL] : m \in d.materials}

-----------------------------------------------------------------------------------------------------------------------------------------------------
(* The requests explored.  A profile names, for every request parameter, the
   small set its values are drawn from; each specification explores the
   handlers under one profile. *)

\* the seed leaves 5 categories, 8 locations, 5 materials: ids above those are new rows
NeverId == 99

MaterialBody(name, category_id, unit, min_stock, location) ==
    [name |-> name, category_id |-> category_id, unit |-> unit, min_stock |-> min_stock,
     location |-> location]

\* stock movements of the seeded material 5 (stock 15) and of a new material 6,
\* with the other tables left nearly alone
LedgerRequests ==
    [locationIds |-> {NeverId}, locationNames |-> {""},
     categoryIds |-> {6, NeverId}, categoryNames |-> {"Baru"},
     materialIds |-> {5, 6, NeverId},
     materialBodies |-> {MaterialBody("Timah", 5, "Roll", 2, "Gudang"),
                         MaterialBody("", 5, "Roll", 2, "Gudang")},
     transactionBodies |-> [material_id : {NULL, 5, 6, NeverId}, type : {"IN", "OUT", "ADJUST"},
                            quantity : {-1, 20}, notes : {"Restock manual"}],
     ticks |-> {0},
     faults |-> 0 .. 2]

\* categories and locations created, renamed and deleted while materials come,
\* move and go
GuardRequests ==
    [locationIds |-> {7, 9, NeverId}, locationNames |-> {"Rak Z"},
     categoryIds |-> {5, 6, NeverId}, categoryNames |-> {"Baru"},
     materialIds |-> {5, NeverId},
     materialBodies |-> {MaterialBody("Timah", NULL, "Roll", 2, "Rak Z"),
                         MaterialBody("Timah", 5, "Roll", 2, "Meja Kerja"),
                         MaterialBody("Timah", NeverId, "Roll", 2, "Rak Z"),
                         MaterialBody("", 5, "Roll", 2, "Rak Z")},
     transactionBodies |-> [material_id : {5}, type : {"OUT", "ADJUST"},
                            quantity : {20}, notes : {"Pengambilan manual"}],
     ticks |-> {1},
     faults |-> 0 .. 2]

\* names that are new, taken by a seeded record, or empty; units that are empty
NameRequests ==
    [locationIds |-> {8, 9}, locationNames |-> {"", "Rak Z", "Gudang"},
     categoryIds |-> {5, 6}, categoryNames |-> {"", "Baru", "Lain-lain"},
     materialIds |-> {5},
     materialBodies |-> {MaterialBody("Timah", 5, "Roll", 2, "Gudang"),
                         MaterialBody("", 5, "Roll", 2, "Gudang"),
                         MaterialBody("Timah", 5, "", 2, "Gudang")},
     transactionBodies |-> [material_id : {5}, type : {"IN"},
                            quantity : {20}, notes : {"Restock manual"}],
     ticks |-> {1},
     faults |-> {0}]

\* the statistics: material 5 (stock 15, min_stock 5) is drawn down 5 at a time,
\* within one second or seconds apart, while materials are created and deleted
StatsRequests ==
    [materialIds |-> {4, 6},
     materialBodies |-> {MaterialBody("Timah", 5, "Roll", 2, "Gudang")},
     transactionBodies |-> [material_id : {5}, type : {"OUT"},
                            quantity : {5}, notes : {"Pengambilan manual"}],
     ticks |-> {0, 1}]

\* requests a client is not meant to send: types that are not IN or OUT,
\* quantities that are not positive, a null material_id, a stock in the body of a
\* new material
InputRequests ==
    [locationIds |-> {NeverId}, locationNames |-> {""},
     categoryIds |-> {NeverId}, categoryNames |-> {""},
     materialIds |-> {5, 6},
     materialBodies |-> {MaterialBody("Timah", 5, "Roll", 2, "Gudang"),
                         [name |-> "Timah", category_id |-> 5, unit |-> "Roll", stock |-> 50,
                          min_stock |-> 2, location |-> "Gudang"]},
     transactionBodies |-> [material_id : {NULL, 5, 6}, type : {"IN", "OUT", "ADJUST", "in"},
                            quantity : {-1, 0, 1}, notes : {""}],
     ticks |-> {0},
     faults |-> {0}]

\* the seeded materials, categories and locations are deleted one by one, and the
\* server is restarted in between
RestartRequests ==
    [locationIds |-> 1 .. 8, categoryIds |-> 1 .. 5, materialIds |-> 1 .. 5]

\* the browser clients that press a stock button at the same moment
Clients == {1, 2}
ClientBodies ==
    [material_id : {4, 5}, type : {"IN", "OUT"}, quantity : {1, 20},
     notes : {"Restock manual", "Pengambilan manual"}]

-----------------------------------------------------------------------------
(* The browser client before its first effect runs *)

\* useState<Material[]>([]), useState<Category[]>([]), useState<Location[]>([]) and
\* useState<DashboardStats | null>(null): stats is << >> for null, <<s>> for a value.
\* posts and refreshes are the handleTransaction and fetchData calls in flight
InitClient ==
    [materials |-> {}, categories |-> {}, locations |-> {}, stats |-> << >>,
     posts |-> {}, refreshes |-> {}, clicks |-> 0, issued |-> 0]

\* useState(false) for isCameraActive; the effect has not run, no stream exists
InitCamera ==
    [isCameraActive |-> FALSE, starts |-> 0, current |-> 0, runs |-> << >>, running |-> {}]

-----------------------------------------------------------------------------
(* The state machine *)

Init ==
    /\ db = initDb(EmptyDb).db
    /\ clock = 0
    /\ fetches = << >>
    /\ client = InitClient
    /\ camera = InitCamera

PostLocations(name) ==
    /\ db.seq.locations < Len(SeedLocations) + MaxNew
    /\ db' = HandlePostLocations(db, name).db
    /\ UNCHANGED <<clock, fetches, client, camera>>

PutLocations(id, name) ==
    /\ db' = HandlePutLocations(db, id, name).db
    /\ UNCHANGED <<clock, fetches, client, camera>>

DeleteLocations(id) ==
    /\ db' = HandleDeleteLocations(db, id).db
    /\ UNCHANGED <<clock, fetches, client, camera>>

PostCategories(name) ==
    /\ db.seq.categories < Len(SeedCategories) + MaxNew
    /\ db' = HandlePostCategories(db, name).db
    /\ UNCHANGED <<clock, fetches, client, camera>>

PutCategories(id, name) ==
    /\ db' = HandlePutCategories(db, id, name).db
    /\ UNCHANGED <<clock, fetches, client, camera>>

DeleteCategories(id) ==
    /\ db' = HandleDeleteCategories(db, id).db
    /\ UNCHANGED <<clock, fetches, client, camera>>

PostMaterials(body) ==
    /\ db.seq.materials < Len(SeedMaterials) + MaxNew
    /\ db' = HandlePostMaterials(db, body).db
    /\ UNCHANGED <<clock, fetches, client, camera>>

PutMaterials(id, body) ==
    /\ db' = HandlePutMaterials(db, id, body).db
    /\ UNCHANGED <<clock, fetches, client, camera>>

DeleteMaterials(id, fault) ==
    /\ db' = HandleDeleteMaterials(db, id, fault).db
    /\ UNCHANGED <<clock, fetches, client, camera>>

\* CURRENT_TIMESTAMP counts seconds: an insert sees the second of the insert before
\* it (tick 0) or a later one
PostTransactions(body, tick, fault) ==
    /\ db.seq.transactions < MaxTx
    /\ LET r == HandlePostTransactions(db, body, clock + tick, fault) IN
       /\ db' = r.db
       /\ clock' = IF r.res.status = 200 THEN clock + tick ELSE clock
    /\ UNCHANGED <<fetches, client, camera>>

Next(P) ==
    \/ \E name \in P.locationNames : PostLocations(name)
    \/ \E id \in P.locationIds, name \in P.locationNames : PutLocations(id, name)
    \/ \E id \in P.locationIds : DeleteLocations(id)
    \/ \E name \in P.categoryNames : PostCategories(name)
    \/ \E id \in P.categoryIds, name \in P.categoryNames : PutCategories(id, name)
    \/ \E id \in P.categoryIds : DeleteCategories(id)
    \/ \E body \in P.materialBodies : PostMaterials(body)
    \/ \E id \in P.materialIds, body \in P.materialBodies : PutMaterials(id, body)
    \/ \E id \in P.materialIds, fault \in P.faults : DeleteMaterials(id, fault)
    \/ \E body \in P.transactionBodies, tick \in P.ticks, fault \in P.faults :
          PostTransactions(body, tick, fault)

NextLedger == Next(LedgerRequests)
SpecLedger == Init /\ [][NextLedger]_vars

NextGuard == Next(GuardRequests)
SpecGuard == Init /\ [][NextGuard]_vars

NextNames == Next(NameRequests)
SpecNames == Init /\ [][NextNames]_vars

NextInput == Next(InputRequests)
SpecInput == Init /\ [][NextInput]_vars

-----------------------------------------------------------------------------
(* The server process is stopped and started again on the same database file *)

\* startServer(): initDb() runs on the store as the last process left it.  The
\* seed runs statement by statement outside any transaction: when one throws,
\* startServer rejects, the process ends, and what was inserted before stays
Restart ==
    /\ db.seq.categories <= Len(SeedCategories) + MaxNew
    /\ db' = initDb(db).db
    /\ UNCHANGED <<clock, fetches, client, camera>>

NextRestart ==
    \/ \E id \in RestartRequests.materialIds : DeleteMaterials(id, 0)
    \/ \E id \in RestartRequests.categoryIds : DeleteCategories(id)
    \/ \E id \in RestartRequests.locationIds : DeleteLocations(id)
    \/ Restart

SpecRestart == Init /\ [][NextRestart]_vars

-----------------------------------------------------------------------------
(* The dashboard: stock movements and the statistics read between them *)

\* app.post("/api/transactions"), the store running its statements
RecordTransaction(body, tick) ==
    /\ db.seq.transactions < MaxStatsTx
    /\ LET r == HandlePostTransactions(db, body, clock + tick, 0) IN
       /\ db' = r.db
       /\ clock' = IF r.res.status = 200 THEN clock + tick ELSE clock
    /\ UNCHANGED <<fetches, client, camera>>

\* app.get("/api/stats"): three SELECTs, the store is left as it is
GetStats ==
    /\ HandleGetStats(db) # {}
    /\ UNCHANGED vars

NextStats ==
    \/ \E body \in StatsRequests.transactionBodies, tick \in StatsRequests.ticks :
          RecordTransaction(body, tick)
    \/ \E body \in StatsRequests.materialBodies : PostMaterials(body)
    \/ \E id \in StatsRequests.materialIds : DeleteMaterials(id, 0)
    \/ GetStats

SpecStats == Init /\ [][NextStats]_vars

-----------------------------------------------------------------------------
(* Two browser clients call handleTransaction at the same moment: both POSTs
   are in flight and the server takes them in either order *)

\* handleTransaction: await fetch('/api/transactions', {method: 'POST', body})
Fetch(body) == [body |-> body, settled |-> FALSE, status |-> 0]

InitPair ==
    /\ db = initDb(EmptyDb).db
    /\ clock = 0
    /\ fetches \in {f \in [Clients -> {Fetch(b) : b \in ClientBodies}] :
                      \A c1, c2 \in Clients : f[c1].body.material_id = f[c2].body.material_id}
    /\ client = InitClient
    /\ camera = InitCamera

ServeFetch(c, tick, fault) ==
    /\ c \in DOMAIN fetches
    /\ ~fetches[c].settled
    /\ LET r == HandlePostTransactions(db, fetches[c].body, clock + tick, fault) IN
       /\ db' = r.db
       /\ clock' = IF r.res.status = 200 THEN clock + tick ELSE clock
       /\ fetches' = [fetches EXCEPT ![c].settled = TRUE, ![c].status = r.res.status]
    /\ UNCHANGED <<client, camera>>

NextPair == \E c \in Clients, tick \in {0, 1}, fault \in 0 .. 2 : ServeFetch(c, tick, fault)

SpecPair == InitPair /\ [][NextPair]_vars

-----------------------------------------------------------------------------
(* One browser client (the React component App).  Its fetch calls travel to the
   server and back on their own: the server handles a request at one moment, the
   promise resolves in the browser at a later one, and nothing orders the
   responses of different calls. *)

\* the stock buttons: one unit of the seeded material 5 in or out
ClickBodies ==
    {[material_id |-> 5, type |-> type, quantity |-> 1, notes |-> ""] : type \in {"IN", "OUT"}}

Paths == {"materials", "categories", "stats", "locations"}

\* fetchData up to its await: Promise.all over four GET requests, none answered yet
fetchData(c) ==
    [c EXCEPT !.issued = @ + 1,
              !.refreshes = @ \cup {[id |-> c.issued + 1, served |-> {}, materials |-> {},
                                     categories |-> {}, stats |-> << >>, locations |-> {}]}]

\* useEffect(() => { fetchData(); }, []) has run: the component is mounted
InitMounted ==
    /\ db = initDb(EmptyDb).db
    /\ clock = 0
    /\ fetches = << >>
    /\ client = fetchData(InitClient)
    /\ camera = InitCamera

\* handleTransaction up to its await: the POST is sent
handleTransaction(body) ==
    /\ client.clicks < MaxClicks
    /\ client' = [client EXCEPT !.clicks = @ + 1,
                                !.posts = @ \cup {[id |-> client.clicks + 1, body |-> body,
                                                   answered |-> FALSE]}]
    /\ UNCHANGED <<db, clock, fetches, camera>>

\* the server handles the POST of one handleTransaction call
ServePost(p) ==
    /\ p \in client.posts
    /\ ~p.answered
    /\ LET r == HandlePostTransactions(db, p.body, clock + 1, 0) IN
       /\ db' = r.db
       /\ clock' = IF r.res.status = 200 THEN clock + 1 ELSE clock
    /\ client' = [client EXCEPT !.posts = (@ \ {p}) \cup {[p EXCEPT !.answered = TRUE]}]
    /\ UNCHANGED <<fetches, camera>>

\* handleTransaction after its await: the response arrived, whatever its status,
\* and fetchData() is called without being awaited
ResolvePost(p) ==
    /\ p \in client.posts
    /\ p.answered
    /\ client' = fetchData([client EXCEPT !.posts = @ \ {p}])
    /\ UNCHANGED <<db, clock, fetches, camera>>

\* the server handles one of the four GET requests of a fetchData call
ServeGet(r, path) ==
    /\ r \in client.refreshes
    /\ path \notin r.served
    /\ \E s \in HandleGetStats(db) :
          LET answered ==
                  [r EXCEPT !.served = @ \cup {path},
                            !.materials = IF path = "materials" THEN HandleGetMaterials(db) ELSE @,
                            !.categories = IF path = "categories" THEN HandleGetCategories(db) ELSE @,
                            !.stats = IF path = "stats" THEN <<s>> ELSE @,
                            !.locations = IF path = "locations" THEN HandleGetLocations(db) ELSE @]
          IN client' = [client EXCEPT !.refreshes = (@ \ {r}) \cup {answered}]
    /\ UNCHANGED <<db, clock, fetches, camera>>

\* fetchData after its await: the four responses are there; setMaterials,
\* setCategories, setStats and setLocations store them
ResolveRefresh(r) ==
    /\ r \in client.refreshes
    /\ r.served = Paths
    /\ client' = [client EXCEPT !.materials = r.materials, !.categories = r.categories,
                                !.stats = r.stats, !.locations = r.locations,
                                !.refreshes = @ \ {r}]
    /\ UNCHANGED <<db, clock, fetches, camera>>

NextClient ==
    \/ \E body \in ClickBodies : handleTransaction(body)
    \/ \E p \in client.posts : ServePost(p)
    \/ \E p \in client.posts : ResolvePost(p)
    \/ \E r \in client.refreshes, path \in Paths : ServeGet(r, path)
    \/ \E r \in client.refreshes : ResolveRefresh(r)

SpecClient == InitMounted /\ [][NextClient]_vars

-----------------------------------------------------------------------------
(* The camera of the browser client.  The effect useEffect(..., [isCameraActive])
   runs again after every change of isCameraActive: React first calls the cleanup
   the previous run returned, then the effect.  Each run has its own variable
   stream, null until its getUserMedia call resolves; getUserMedia resolves or
   rejects at a later moment of the browser's choosing. *)

\* the cleanup of run e: if (stream) { stream.getTracks().forEach(track => track.stop()) }
cleanup(c, e) ==
    IF e \in DOMAIN c.runs /\ c.runs[e].stream # NULL
    THEN [c EXCEPT !.running = @ \ {c.runs[e].stream}]
    ELSE c

\* one run of the effect, after the cleanup of the run before it.  The <video>
\* is rendered exactly while isCameraActive, so videoRef.current is set exactly
\* then, and enableCamera calls getUserMedia exactly then
runEffect(c) ==
    LET cleaned == cleanup(c, c.current) IN
    [cleaned EXCEPT !.current = Len(c.runs) + 1,
                    !.runs = Append(@, [pending |-> c.isCameraActive, stream |-> NULL])]

\* setIsCameraActive(v): a new value renders the component and runs the effect again
setIsCameraActive(c, v) ==
    IF c.isCameraActive = v THEN c ELSE runEffect([c EXCEPT !.isCameraActive = v])

\* the component is mounted: the effect has run once, with isCameraActive false
InitCameraMounted ==
    /\ db = initDb(EmptyDb).db
    /\ clock = 0
    /\ fetches = << >>
    /\ client = InitClient
    /\ camera = runEffect(InitCamera)

\* the buttons "Ambil Foto" and "Ambil Ulang", shown while the camera is off
startCamera ==
    /\ ~camera.isCameraActive
    /\ camera.starts < MaxStarts
    /\ camera' = setIsCameraActive([camera EXCEPT !.starts = @ + 1], TRUE)
    /\ UNCHANGED <<db, clock, fetches, client>>

\* the X button over the video, and the X button of the dialog
stopCamera ==
    /\ camera' = setIsCameraActive(camera, FALSE)
    /\ UNCHANGED <<db, clock, fetches, client>>

\* capturePhoto: with a video that has frames (readyState >= 2, so a stream is
\* attached) it takes the picture and calls stopCamera(); otherwise it alerts
capturePhoto ==
    /\ camera.isCameraActive
    /\ camera.runs[camera.current].stream # NULL
    /\ camera' = setIsCameraActive(camera, FALSE)
    /\ UNCHANGED <<db, clock, fetches, client>>

\* getUserMedia of run e resolves: stream = await ...; the tracks of the new stream run
getUserMediaResolves(e) ==
    /\ e \in DOMAIN camera.runs
    /\ camera.runs[e].pending
    /\ camera' = [camera EXCEPT !.runs[e].pending = FALSE, !.runs[e].stream = e,
                                !.running = @ \cup {e}]
    /\ UNCHANGED <<db, clock, fetches, client>>

\* getUserMedia of run e rejects: catch (err) { alert; setIsCameraActive(false); ... }
getUserMediaRejects(e) ==
    /\ e \in DOMAIN camera.runs
    /\ camera.runs[e].pending
    /\ camera' = setIsCameraActive([camera EXCEPT !.runs[e].pending = FALSE], FALSE)
    /\ UNCHANGED <<db, clock, fetches, client>>

NextCamera ==
    \/ startCamera
    \/ stopCamera
    \/ capturePhoto
    \/ \E e \in DOMAIN camera.runs : getUserMediaResolves(e)
    \/ \E e \in DOMAIN camera.runs : getUserMediaRejects(e)

SpecCamera == InitCameraMounted /\ [][NextCamera]_vars

-----------------------------------------------------------------------------
(* Vocabulary of the properties *)

Material(d, id) == CHOOSE m \in d.materials : m.id = id
Category(d, id) == CHOOSE c \in d.categories : c.id = id
Location(d, id) == CHOOSE l \in d.locations : l.id = id

TransactionsOf(d, id) == {t \in d.transactions : t.material_id = id}

CategoryDependents(d, id) == {m \in d.materials : m.category_id = id}
LocationDependents(d, id) == {m \in d.materials : m.location = Location(d, id).name}

\* +quantity for IN, -quantity for OUT
Signed(t) == IF t.type = "IN" THEN t.quantity ELSE 0 - t.quantity

RECURSIVE SumSigned(_)
SumSigned(rows) ==
    IF rows = {} THEN 0
    ELSE LET t == CHOOSE x \in rows : TRUE IN Signed(t) + SumSigned(rows \ {t})

\* the stock a material was inserted with: the seed's value for the seeded ids,
\* the column default for a material created through POST /api/materials
InitialStock(id) ==
    IF id \in 1 .. Len(SeedMaterials) THEN SeedMaterials[id].stock ELSE DefaultStock

\* the materials of d other than id are the materials of e other than id
SameMaterialsBut(d, e, id) ==
    {m \in d.materials : m.id # id} = {m \in e.materials : m.id # id}

\* every material of d that is still in e has in e the stock it has in d
StockKept(d, e) ==
    \A m \in d.materials : HasId(e.materials, m.id) => Material(e, m.id).stock = m.stock

\* the row inserted latest
LatestTransaction(t) == t \in db.transactions /\ t.id = db.seq.transactions

-----------------------------------------------------------------------------
(* C1 *)

\* C1 (as stated): in every reachable state each existing material's stock equals
\* the sum of the signed quantities of the transaction rows stored for it.
\* The seeded store already breaks it: initDb inserts "Resistor 220 Ohm" with
\* stock 150 and no transaction row.
C1_StockIsSumOfTransactions ==
    \A m \in db.materials : m.stock = SumSigned(TransactionsOf(db, m.id))

\* C1 (amended): in every reachable state each existing material's stock equals
\* the stock it was inserted with (the seed's value, or 0 for a material created
\* through the API) plus the sum of the signed quantities of its transaction rows.
C1_StockIsInitialPlusTransactions ==
    \A m \in db.materials :
        m.stock = InitialStock(m.id) + SumSigned(TransactionsOf(db, m.id))

\* a created material carries an OUT movement and a seeded one an IN movement
C1_Witness ==
    /\ \E m \in db.materials :
          /\ m.id = 6
          /\ \E t \in TransactionsOf(db, 6) : t.type = "OUT"
    /\ \E m \in db.materials :
          /\ m.id = 5
          /\ \E t \in TransactionsOf(db, 5) : t.type = "IN"
          /\ m.stock # InitialStock(5)

-----------------------------------------------------------------------------
(* C2 *)

\* C2: in every reachable state, a POST /api/transactions that is answered 200 for
\* an existing material adds exactly one row, carrying the request's material id,
\* type, quantity and notes; moves that material's stock by +quantity (IN) or
\* -quantity (OUT) and changes nothing else of it; and leaves the other materials,
\* the earlier rows, the categories and the locations as they were.
C2_RecordTransactionEffect ==
    \A body \in LedgerRequests.transactionBodies, tick \in LedgerRequests.ticks,
       fault \in LedgerRequests.faults :
       LET r == HandlePostTransactions(db, body, clock + tick, fault) IN
       (r.res.status = 200 /\ HasId(db.materials, body.material_id))
       => /\ \E t \in r.db.transactions :
                /\ t \notin db.transactions
                /\ r.db.transactions = db.transactions \cup {t}
                /\ t.material_id = body.material_id
                /\ t.type = body.type
                /\ t.quantity = body.quantity
                /\ t.notes = body.notes
          /\ HasId(r.db.materials, body.material_id)
          /\ LET before == Material(db, body.material_id)
                 after == Material(r.db, body.material_id)
             IN  /\ body.type = "IN" => after.stock = before.stock + body.quantity
                 /\ body.type = "OUT" => after.stock = before.stock - body.quantity
                 /\ body.type \in {"IN", "OUT"}
                 /\ after = [before EXCEPT !.stock = after.stock]
          /\ SameMaterialsBut(db, r.db, body.material_id)
          /\ r.db.categories = db.categories
          /\ r.db.locations = db.locations

\* two rows are stored and the latest is an OUT movement of an existing material
C2_Witness ==
    \E t \in db.transactions :
        /\ LatestTransaction(t)
        /\ t.type = "OUT"
        /\ HasId(db.materials, t.material_id)
        /\ Cardinality(db.transactions) = 2

-----------------------------------------------------------------------------
(* C3 *)

\* C3: in every reachable state a POST /api/transactions is all or nothing.
\* Answered 200, both effects are in the store it leaves (one new row, and the
\* stock of the material it names moved by its signed quantity); answered anything
\* else, whichever statement failed, the store it leaves is the store it found.
\* The handler runs to completion, so no other store is ever there to be read.
C3_LedgerAllOrNothing ==
    \A body \in LedgerRequests.transactionBodies, tick \in LedgerRequests.ticks,
       fault \in LedgerRequests.faults :
       LET r == HandlePostTransactions(db, body, clock + tick, fault) IN
       \/ /\ r.res.status = 200
          /\ Cardinality(r.db.transactions \ db.transactions) = 1
          /\ \A m \in db.materials :
                /\ HasId(r.db.materials, m.id)
                /\ Material(r.db, m.id).stock - m.stock
                      = SumSigned(TransactionsOf(r.db, m.id) \ db.transactions)
       \/ /\ r.res.status # 200
          /\ r.db = db

\* after a committed movement, the store fails the UPDATE of a request whose
\* INSERT had run: the request is answered 500 and the store is as it was
C3_Witness ==
    /\ db.transactions # {}
    /\ \E body \in LedgerRequests.transactionBodies :
          LET r == HandlePostTransactions(db, body, clock, 2) IN
          /\ HasId(db.materials, body.material_id)
          /\ r.res.status = 500
          /\ r.res.error = "SQLITE_IOERR"
          /\ r.db = db

-----------------------------------------------------------------------------
(* C4 *)

\* C4: two POST /api/transactions for the same existing material, in flight
\* together and served in either order: once both are answered 200, both rows are
\* stored and the stock is the stock before both plus both signed adjustments.
C4_NoLostUpdate ==
    (\A c \in Clients : c \in DOMAIN fetches /\ fetches[c].settled /\ fetches[c].status = 200)
    => LET id == fetches[1].body.material_id IN
       /\ HasId(db.materials, id)
       /\ Material(db, id).stock
             = InitialStock(id) + Signed(fetches[1].body) + Signed(fetches[2].body)
       /\ \E t1, t2 \in TransactionsOf(db, id) :
             /\ t1 # t2
             /\ db.transactions = {t1, t2}
             /\ \A f \in {"type", "quantity", "notes"} :
                   t1[f] = fetches[1].body[f] /\ t2[f] = fetches[2].body[f]

\* both answered 200, an IN of 20 and an OUT of 1
C4_Witness ==
    /\ DOMAIN fetches = Clients
    /\ \A c \in Clients : fetches[c].settled /\ fetches[c].status = 200
    /\ fetches[1].body.type = "IN" /\ fetches[1].body.quantity = 20
    /\ fetches[2].body.type = "OUT" /\ fetches[2].body.quantity = 1

-----------------------------------------------------------------------------
(* C5 *)

\* C5: in every reachable state, an OUT movement larger than the stock of an
\* existing material, the store running its statements, is answered 200: the row
\* is recorded and the stock becomes the negative number stock - quantity,
\* neither floored nor refused.
C5_NoStockFloor ==
    \A body \in LedgerRequests.transactionBodies, tick \in LedgerRequests.ticks :
       LET r == HandlePostTransactions(db, body, clock + tick, 0) IN
       (/\ body.type = "OUT"
        /\ HasId(db.materials, body.material_id)
        /\ body.quantity > Material(db, body.material_id).stock)
       => /\ r.res.status = 200
          /\ HasId(r.db.materials, body.material_id)
          /\ Material(r.db, body.material_id).stock
                = Material(db, body.material_id).stock - body.quantity
          /\ Material(r.db, body.material_id).stock < 0
          /\ \E t \in r.db.transactions \ db.transactions :
                /\ t.material_id = body.material_id
                /\ t.type = "OUT"
                /\ t.quantity = body.quantity

\* the latest row took 20 out of a seeded material that now stands below zero
C5_Witness ==
    \E t \in db.transactions :
        /\ LatestTransaction(t)
        /\ t.type = "OUT" /\ t.quantity = 20
        /\ t.material_id = 5
        /\ HasId(db.materials, 5)
        /\ Material(db, 5).stock < 0

-----------------------------------------------------------------------------
(* C6 *)

\* C6: in every reachable state, a POST /api/transactions whose material_id is the
\* id of no material leaves every material, so every stock, as it was, and leaves
\* no stored row that refers to that id.
C6_UnknownMaterialUntouched ==
    \A body \in LedgerRequests.transactionBodies, tick \in LedgerRequests.ticks,
       fault \in LedgerRequests.faults :
       LET r == HandlePostTransactions(db, body, clock + tick, fault) IN
       ~HasId(db.materials, body.material_id)
       => /\ r.db.materials = db.materials
          /\ ~\E t \in r.db.transactions :
                t.material_id # NULL /\ t.material_id = body.material_id

\* material 6 was created and deleted while other rows stay stored; a movement
\* for id 6 is then refused by the foreign key
C6_Witness ==
    /\ db.seq.materials >= 6
    /\ ~HasId(db.materials, 6)
    /\ db.transactions # {}
    /\ \E body \in LedgerRequests.transactionBodies :
          LET r == HandlePostTransactions(db, body, clock, 0) IN
          /\ body.material_id = 6
          /\ r.res.status = 500
          /\ r.res.error = "SQLITE_CONSTRAINT_FOREIGNKEY"

-----------------------------------------------------------------------------
(* C7 *)

\* C7: in every reachable state, DELETE of a category that some material names by
\* category_id, or of a location whose present name some material carries, is
\* answered 400 "still in use" with the number of those materials and leaves the
\* store unchanged; and no step removes a category or a location to which a
\* material refers at that moment.
C7_InUseDeleteRejected ==
    /\ [](/\ \A id \in GuardRequests.categoryIds :
               LET r == HandleDeleteCategories(db, id) IN
               (HasId(db.categories, id) /\ CategoryDependents(db, id) # {})
               => /\ r.res.status = 400
                  /\ r.res.error = "Kategori ini masih digunakan"
                  /\ r.res.count = Cardinality(CategoryDependents(db, id))
                  /\ r.db = db
          /\ \A id \in GuardRequests.locationIds :
               LET r == HandleDeleteLocations(db, id) IN
               (HasId(db.locations, id) /\ LocationDependents(db, id) # {})
               => /\ r.res.status = 400
                  /\ r.res.error = "Lokasi ini masih digunakan"
                  /\ r.res.count = Cardinality(LocationDependents(db, id))
                  /\ r.db = db)
    /\ [][/\ \A c \in db.categories :
               ~HasId(db'.categories, c.id) => CategoryDependents(db, c.id) = {}
          /\ \A l \in db.locations :
               ~HasId(db'.locations, l.id) => LocationDependents(db, l.id) = {}]_vars

\* a location whose name two materials carry, and whose deletion is refused for
\* the two of them
C7_Witness ==
    \E l \in db.locations :
        /\ Cardinality(LocationDependents(db, l.id)) = 2
        /\ HandleDeleteLocations(db, l.id).res.status = 400
        /\ HandleDeleteLocations(db, l.id).res.count = 2

-----------------------------------------------------------------------------
(* C8 *)

\* C8: in every reachable state, DELETE of an existing category or location to
\* which no material refers is answered 200, removes that one record and leaves
\* every other category, location, material and transaction as it was.
C8_UnusedDeleteSucceeds ==
    /\ \A id \in GuardRequests.categoryIds :
          LET r == HandleDeleteCategories(db, id) IN
          (HasId(db.categories, id) /\ CategoryDependents(db, id) = {})
          => /\ r.res.status = 200
             /\ r.db.categories = db.categories \ {Category(db, id)}
             /\ r.db.locations = db.locations
             /\ r.db.materials = db.materials
             /\ r.db.transactions = db.transactions
    /\ \A id \in GuardRequests.locationIds :
          LET r == HandleDeleteLocations(db, id) IN
          (HasId(db.locations, id) /\ LocationDependents(db, id) = {})
          => /\ r.res.status = 200
             /\ r.db.locations = db.locations \ {Location(db, id)}
             /\ r.db.categories = db.categories
             /\ r.db.materials = db.materials
             /\ r.db.transactions = db.transactions

\* the seeded category 5 has been deleted, after its material left it, while a
\* created category and a transaction row stay
C8_Witness ==
    /\ ~HasId(db.categories, 5)
    /\ HasId(db.categories, 6)
    /\ db.transactions # {}

-----------------------------------------------------------------------------
(* C9 *)

\* C9: in every reachable state, DELETE of a category or location id that names no
\* record is answered 404 "not found" and leaves the store unchanged.
C9_UnknownDeleteNotFound ==
    /\ \A id \in GuardRequests.categoryIds :
          LET r == HandleDeleteCategories(db, id) IN
          ~HasId(db.categories, id)
          => /\ r.res.status = 404
             /\ r.res.error = "Kategori tidak ditemukan."
             /\ r.db = db
    /\ \A id \in GuardRequests.locationIds :
          LET r == HandleDeleteLocations(db, id) IN
          ~HasId(db.locations, id)
          => /\ r.res.status = 404
             /\ r.res.error = "Lokasi tidak ditemukan."
             /\ r.db = db

\* category 6 was created and deleted; deleting it again is answered 404
C9_Witness ==
    /\ db.seq.categories >= 6
    /\ ~HasId(db.categories, 6)
    /\ HandleDeleteCategories(db, 6).res.status = 404

-----------------------------------------------------------------------------
(* C10 *)

\* C10: in every reachable state, a DELETE /api/materials/:id answered 200 leaves
\* neither the material nor any transaction row naming its id; answered anything
\* else, whichever DELETE failed, it leaves the store it found: the material never
\* stands with its rows removed, nor the rows with the material removed.
C10_DeleteMaterialCascadesAtomically ==
    /\ \A id \in LedgerRequests.materialIds, fault \in LedgerRequests.faults :
          LET r == HandleDeleteMaterials(db, id, fault) IN
          \/ /\ r.res.status = 200
             /\ ~HasId(r.db.materials, id)
             /\ TransactionsOf(r.db, id) = {}
          \/ /\ r.res.status # 200
             /\ r.db = db
    /\ \A t \in db.transactions :
          t.material_id \in LedgerRequests.materialIds => HasId(db.materials, t.material_id)

\* material 5 was deleted and transaction rows went with it, others staying
C10_Witness ==
    /\ ~HasId(db.materials, 5)
    /\ db.seq.transactions > Cardinality(db.transactions)
    /\ db.transactions # {}

-----------------------------------------------------------------------------
(* C11 *)

\* C11: in every reachable state, DELETE /api/materials/:id of an existing
\* material, the store running its statements, is answered 200 whatever the
\* material's stock, category, location and rows: the material and the rows that
\* name it are gone, and every other material, every other row, the categories
\* and the locations are as they were.
C11_DeleteMaterialUnconditional ==
    \A id \in LedgerRequests.materialIds :
       LET r == HandleDeleteMaterials(db, id, 0) IN
       HasId(db.materials, id)
       => /\ r.res.status = 200
          /\ r.db.materials = db.materials \ {Material(db, id)}
          /\ r.db.transactions = db.transactions \ TransactionsOf(db, id)
          /\ r.db.categories = db.categories
          /\ r.db.locations = db.locations

\* the seeded material 5 was deleted after a movement, while the created
\* material 6 and a row of its own stay
C11_Witness ==
    /\ ~HasId(db.materials, 5)
    /\ db.seq.transactions = 2
    /\ HasId(db.materials, 6)
    /\ Cardinality(TransactionsOf(db, 6)) = 1

-----------------------------------------------------------------------------
(* C12 *)

\* C12: in every reachable state, DELETE /api/materials/:id with an id that names
\* no material is answered 404 and leaves the store, its transaction rows
\* included, as it was.
C12_UnknownMaterialNotFound ==
    \A id \in LedgerRequests.materialIds, fault \in LedgerRequests.faults :
       LET r == HandleDeleteMaterials(db, id, fault) IN
       ~HasId(db.materials, id)
       => /\ r.res.status = 404
          /\ r.res.error = "Bahan tidak ditemukan."
          /\ r.db = db

\* material 6 was created and deleted; rows stay stored, one of them naming no
\* material; deleting 6 again is answered 404
C12_Witness ==
    /\ db.seq.materials >= 6
    /\ ~HasId(db.materials, 6)
    /\ \E t \in db.transactions : t.material_id = NULL
    /\ HandleDeleteMaterials(db, 6, 0).res.status = 404

-----------------------------------------------------------------------------
(* C13 *)

\* C13: in every reachable state, POST /api/categories (POST /api/locations) with
\* the name of an existing category (location) is answered 400, adds no record and
\* leaves the store, the record of that name included, as it was.
C13_DuplicateCreateRejected ==
    /\ \A name \in NameRequests.categoryNames :
          LET r == HandlePostCategories(db, name) IN
          (\E c \in db.categories : c.name = name)
          => /\ r.res.status = 400
             /\ r.db = db
    /\ \A name \in NameRequests.locationNames :
          LET r == HandlePostLocations(db, name) IN
          (\E l \in db.locations : l.name = name)
          => /\ r.res.status = 400
             /\ r.db = db

\* category 6 was created as "Baru"; creating "Baru" again is refused as a duplicate
C13_Witness ==
    /\ HasId(db.categories, 6)
    /\ Category(db, 6).name = "Baru"
    /\ db.seq.categories = 6
    /\ HandlePostCategories(db, "Baru").res.error = "Nama kategori sudah ada."

-----------------------------------------------------------------------------
(* C14 *)

\* C14: in every reachable state no two categories share a name and no two
\* locations share a name; and a PUT that would give a category (location) the
\* name another category (location) has is refused, the store left as it was.
C14_NamesUnique ==
    /\ \A c1, c2 \in db.categories : c1.name = c2.name => c1 = c2
    /\ \A l1, l2 \in db.locations : l1.name = l2.name => l1 = l2
    /\ \A id \in NameRequests.categoryIds, name \in NameRequests.categoryNames :
          LET r == HandlePutCategories(db, id, name) IN
          (HasId(db.categories, id) /\ \E c \in db.categories : c.id # id /\ c.name = name)
          => /\ r.res.status # 200
             /\ r.db = db
    /\ \A id \in NameRequests.locationIds, name \in NameRequests.locationNames :
          LET r == HandlePutLocations(db, id, name) IN
          (HasId(db.locations, id) /\ \E l \in db.locations : l.id # id /\ l.name = name)
          => /\ r.res.status # 200
             /\ r.db = db

\* locations 8 and 9 have been renamed until 9 carries the seed name of 8; renaming
\* 9 to the name 8 has now is refused
C14_Witness ==
    /\ HasId(db.locations, 8) /\ HasId(db.locations, 9)
    /\ Location(db, 8).name = "Rak Z"
    /\ Location(db, 9).name = "Gudang"
    /\ HandlePutLocations(db, 9, "Rak Z").res.status = 500

-----------------------------------------------------------------------------
(* C15 *)

\* C15: in every reachable state, POST /api/categories or POST /api/locations with
\* an empty name, and POST /api/materials with an empty name or an empty unit, is
\* answered 400 and leaves the store as it was (a missing field is empty to the
\* handler's test).
C15_EmptyCreateRejected ==
    /\ \A name \in NameRequests.categoryNames :
          LET r == HandlePostCategories(db, name) IN
          name = "" => r.res.status = 400 /\ r.db = db
    /\ \A name \in NameRequests.locationNames :
          LET r == HandlePostLocations(db, name) IN
          name = "" => r.res.status = 400 /\ r.db = db
    /\ \A body \in NameRequests.materialBodies :
          LET r == HandlePostMaterials(db, body) IN
          (body.name = "" \/ body.unit = "")
          => r.res.status = 400 /\ r.db = db

\* records were created with names; a material without a unit and a category
\* without a name are then refused
C15_Witness ==
    /\ HasId(db.materials, 6)
    /\ HasId(db.categories, 6)
    /\ \E body \in NameRequests.materialBodies :
          /\ body.unit = ""
          /\ HandlePostMaterials(db, body).res.error = "Nama dan Satuan wajib diisi."
    /\ HandlePostCategories(db, "").res.error = "Nama kategori wajib diisi."

-----------------------------------------------------------------------------
(* C16 *)

\* C16 (as stated): in every reachable state, a PUT of a category or a location
\* with an empty name, or of a material with an empty name or unit, is refused and
\* leaves the store as it was; and no category, location or material has an empty
\* name.  The PUT handlers of categories and locations do not test the name:
\* PUT /api/categories/5 {name: ""} is answered 200 and empties the name.
C16_EmptyUpdateRejected ==
    /\ \A id \in NameRequests.categoryIds :
          LET r == HandlePutCategories(db, id, "") IN
          r.res.status # 200 /\ r.db = db
    /\ \A id \in NameRequests.locationIds :
          LET r == HandlePutLocations(db, id, "") IN
          r.res.status # 200 /\ r.db = db
    /\ \A id \in NameRequests.materialIds, body \in NameRequests.materialBodies :
          LET r == HandlePutMaterials(db, id, body) IN
          (body.name = "" \/ body.unit = "") => r.res.status # 200 /\ r.db = db
    /\ \A c \in db.categories : c.name # ""
    /\ \A l \in db.locations : l.name # ""
    /\ \A m \in db.materials : m.name # ""

-----------------------------------------------------------------------------
(* C17 *)

\* C17: only POST /api/transactions changes the stock of an existing material.
\* In every reachable state, the nine other handlers (create, update and delete of
\* locations, categories and materials), whatever they answer, leave every
\* material that is still stored with the stock it had; and in every step in
\* which a stored material's stock changes, a new transaction row naming that
\* material is stored.
C17_StockChangedOnlyByLedger ==
    /\ [](LET P == GuardRequests IN
          /\ \A name \in P.locationNames : StockKept(db, HandlePostLocations(db, name).db)
          /\ \A id \in P.locationIds, name \in P.locationNames :
                StockKept(db, HandlePutLocations(db, id, name).db)
          /\ \A id \in P.locationIds : StockKept(db, HandleDeleteLocations(db, id).db)
          /\ \A name \in P.categoryNames : StockKept(db, HandlePostCategories(db, name).db)
          /\ \A id \in P.categoryIds, name \in P.categoryNames :
                StockKept(db, HandlePutCategories(db, id, name).db)
          /\ \A id \in P.categoryIds : StockKept(db, HandleDeleteCategories(db, id).db)
          /\ \A body \in P.materialBodies : StockKept(db, HandlePostMaterials(db, body).db)
          /\ \A id \in P.materialIds, body \in P.materialBodies :
                StockKept(db, HandlePutMaterials(db, id, body).db)
          /\ \A id \in P.materialIds, fault \in P.faults :
                StockKept(db, HandleDeleteMaterials(db, id, fault).db))
    /\ [][\A m \in db.materials :
             (HasId(db'.materials, m.id) /\ Material(db', m.id).stock # m.stock)
             => \E t \in db'.transactions \ db.transactions : t.material_id = m.id]_vars

\* material 5 carries the fields a PUT gave it and the stock two movements left,
\* beside a created category and a created material
C17_Witness ==
    /\ HasId(db.materials, 5)
    /\ Material(db, 5).name = "Timah"
    /\ Material(db, 5).stock = InitialStock(5) - 40
    /\ HasId(db.categories, 6)
    /\ HasId(db.materials, 6)

-----------------------------------------------------------------------------
(* C18 *)

\* C18: transaction rows are append-only and immutable.  In every step, every
\* stored row either stays exactly as it was (material_id, type, quantity, date
\* and notes) or is gone together with the material it names, which that step
\* deleted; and a row that a step adds takes an id no row ever had, so no id
\* comes back with other contents.
C18_TransactionsImmutable ==
    [][/\ \A t \in db.transactions :
             \/ t \in db'.transactions
             \/ /\ ~HasId(db'.transactions, t.id)
                /\ t.material_id # NULL
                /\ HasId(db.materials, t.material_id)
                /\ ~HasId(db'.materials, t.material_id)
       /\ \A u \in db'.transactions \ db.transactions : u.id > db.seq.transactions
       /\ db'.seq.transactions >= db.seq.transactions]_vars

\* the first row went with its material 5; the second, of another material or of
\* none, stays
C18_Witness ==
    /\ ~HasId(db.materials, 5)
    /\ ~HasId(db.transactions, 1)
    /\ HasId(db.transactions, 2)
    /\ db.seq.transactions = 2

-----------------------------------------------------------------------------
(* C19 *)

\* C19: in every reachable state, every response of GET /api/stats has
\* totalMaterials equal to the number of stored materials and lowStock equal to
\* the number of them whose stock is at or below min_stock: together with the
\* materials whose stock is above min_stock they are all the materials, and a
\* material whose stock equals its min_stock is among the low ones.
C19_StatsCounts ==
    \A stats \in HandleGetStats(db) :
       /\ stats.totalMaterials = Cardinality({m.id : m \in db.materials})
       /\ stats.lowStock + Cardinality({m \in db.materials : m.stock > m.min_stock})
             = stats.totalMaterials
       /\ stats.lowStock >= Cardinality({m \in db.materials : m.stock = m.min_stock})
       /\ (\A m \in db.materials : m.stock > m.min_stock) <=> stats.lowStock = 0

\* material 5 (min_stock 5) was above the threshold at 15 and at 10 and, two
\* OUT 5 later, stands at its min_stock: it is the one low-stock material of four
C19_Witness ==
    /\ HasId(db.materials, 5)
    /\ Material(db, 5).stock = 5
    /\ Material(db, 5).min_stock = 5
    /\ Cardinality(TransactionsOf(db, 5)) = 2
    /\ ~HasId(db.materials, 4)
    /\ \A stats \in HandleGetStats(db) : stats.lowStock = 1 /\ stats.totalMaterials = 4

-----------------------------------------------------------------------------
(* C20 *)

\* C20 (as stated): in every reachable state, every response of GET /api/stats
\* lists min(5, number of stored rows) transactions, newest first by creation: a
\* row recorded later (larger id) is never listed after one recorded earlier, no
\* stored row left out was recorded after a listed one, and each listed row
\* carries the name of its material.  Rows recorded within the same second have
\* equal dates, and ORDER BY date DESC may list or keep the earlier one first.
C20_RecentNewestFirst ==
    \A stats \in HandleGetStats(db) :
       LET q == stats.recentTransactions IN
       /\ Len(q) = IF Cardinality(db.transactions) < RecentLimit
                   THEN Cardinality(db.transactions) ELSE RecentLimit
       /\ \A i, j \in 1 .. Len(q) : i < j => q[i].id > q[j].id
       /\ \A t \in db.transactions :
             (\A i \in 1 .. Len(q) : q[i].id # t.id)
             => \A i \in 1 .. Len(q) : t.id < q[i].id
       /\ \A i \in 1 .. Len(q) :
             /\ HasId(db.materials, q[i].material_id)
             /\ q[i].material_name = Material(db, q[i].material_id).name

-----------------------------------------------------------------------------
(* C21 *)

\* C21: in every reachable state, PUT /api/locations/:id changes no material: the
\* materials that carry the location's old name keep it.  After a rename that is
\* answered 200 and gives an existing location a name it did not have, its
\* dependents are the materials carrying the new name only, and if there are none
\* the location can be deleted although materials still carry the old name.
C21_RenameDoesNotCascade ==
    \A id \in GuardRequests.locationIds, name \in GuardRequests.locationNames :
       LET r == HandlePutLocations(db, id, name) IN
       /\ r.db.materials = db.materials
       /\ (HasId(db.locations, id) /\ r.res.status = 200 /\ Location(db, id).name # name)
          => /\ Location(r.db, id).name = name
             /\ LocationDependents(r.db, id) = {m \in db.materials : m.location = name}
             /\ LocationDependents(db, id) \cap LocationDependents(r.db, id) = {}
             /\ {m \in db.materials : m.location = name} = {}
                => /\ HandleDeleteLocations(r.db, id).res.status = 200
                   /\ ~HasId(HandleDeleteLocations(r.db, id).db.locations, id)
                   /\ HandleDeleteLocations(r.db, id).db.materials = db.materials

\* location 7, seeded as "Meja Kerja", is gone while the seeded material 5, never
\* updated, still carries that name
C21_Witness ==
    /\ ~HasId(db.locations, 7)
    /\ HasId(db.materials, 5)
    /\ Material(db, 5).name = SeedMaterials[5].name
    /\ Material(db, 5).location = "Meja Kerja"
    /\ \A l \in db.locations : l.name # "Meja Kerja"

-----------------------------------------------------------------------------
(* C22 *)

\* C22: in every reachable state, a POST /api/transactions whose type is neither
\* IN nor OUT is refused, adds no row and changes no material (the negative
\* adjustment computed for it is never applied); and every stored row has type
\* IN or OUT.
C22_TypeChecked ==
    /\ \A body \in InputRequests.transactionBodies :
          LET r == HandlePostTransactions(db, body, clock, 0) IN
          body.type \notin {"IN", "OUT"}
          => /\ r.res.status # 200
             /\ r.db.transactions = db.transactions
             /\ r.db.materials = db.materials
             /\ r.db = db
    /\ \A t \in db.transactions : t.type \in {"IN", "OUT"}

\* an IN and an OUT row are stored for material 5; a movement of type ADJUST, or
\* of type "in", is then refused by the CHECK
C22_Witness ==
    /\ \E t1, t2 \in TransactionsOf(db, 5) : t1.type = "IN" /\ t2.type = "OUT"
    /\ \A type \in {"ADJUST", "in"} :
          \E body \in InputRequests.transactionBodies :
             /\ body.type = type
             /\ body.material_id = 5
             /\ HandlePostTransactions(db, body, clock, 0).res.error
                   = "SQLITE_CONSTRAINT_CHECK"

-----------------------------------------------------------------------------
(* C23 *)

\* C23 (as stated): in every reachable state every stored transaction row has a
\* quantity of at least 1, whatever the requests carried; and so a POST
\* /api/transactions answered 200 for an existing material never lowers its
\* stock with IN nor raises it with OUT.  The handler stores the quantity it is
\* given: OUT with quantity -1 is answered 200 and raises the stock by 1.
C23_QuantityPositive ==
    /\ \A t \in db.transactions : t.quantity >= 1
    /\ \A body \in InputRequests.transactionBodies :
          LET r == HandlePostTransactions(db, body, clock, 0) IN
          (r.res.status = 200 /\ HasId(db.materials, body.material_id))
          => /\ body.type = "IN"
                => Material(r.db, body.material_id).stock
                      >= Material(db, body.material_id).stock
             /\ body.type = "OUT"
                => Material(r.db, body.material_id).stock
                      <= Material(db, body.material_id).stock

-----------------------------------------------------------------------------
(* C25 *)

\* C25 (as stated): in every reachable state every stored transaction row names
\* an existing material, so the inner join of GET /api/stats hides no stored row.
\* A request with material_id null is answered 200 and stores a row that names
\* no material.
C25_NoOrphanTransactions ==
    /\ \A t \in db.transactions : HasId(db.materials, t.material_id)
    /\ {t.id : t \in JoinMaterials(db)} = {t.id : t \in db.transactions}

-----------------------------------------------------------------------------
(* C26 *)

\* C26: in every reachable state, a POST /api/materials that is answered 200
\* stores one new material, under an id no material has, with stock 0 whatever
\* the body carries (a stock in the body is not read) and with no transaction row
\* naming it; every other material, every row, category and location is as it was.
C26_NewMaterialStartsEmpty ==
    \A body \in InputRequests.materialBodies :
       LET r == HandlePostMaterials(db, body) IN
       r.res.status = 200
       => /\ ~HasId(db.materials, r.res.id)
          /\ HasId(r.db.materials, r.res.id)
          /\ Material(r.db, r.res.id).stock = 0
          /\ Material(r.db, r.res.id).name = body.name
          /\ TransactionsOf(r.db, r.res.id) = {}
          /\ r.db.materials = db.materials \cup {Material(r.db, r.res.id)}
          /\ r.db.transactions = db.transactions
          /\ r.db.categories = db.categories
          /\ r.db.locations = db.locations

\* material 6 was created, from a body with or without a stock, after movements
\* of material 5 were stored: it stands at 0 with no row
C26_Witness ==
    /\ HasId(db.materials, 6)
    /\ Material(db, 6).stock = 0
    /\ TransactionsOf(db, 6) = {}
    /\ Cardinality(TransactionsOf(db, 5)) = 2
    /\ \E body \in InputRequests.materialBodies : "stock" \in DOMAIN body /\ body.stock # 0

-----------------------------------------------------------------------------
(* C24 *)

\* C24: in every reachable state every material's category_id is NULL or the id
\* of a stored category, whatever materials were created and updated and
\* whatever categories were created, renamed and deleted.
C24_CategoryReferenceValid ==
    \A m \in db.materials : m.category_id = NULL \/ HasId(db.categories, m.category_id)

\* category 5 was deleted after its materials left it for no category; a PUT that
\* names a category that never existed is refused
C24_Witness ==
    /\ ~HasId(db.categories, 5)
    /\ HasId(db.materials, 5)
    /\ Material(db, 5).category_id = NULL
    /\ \E body \in GuardRequests.materialBodies :
          /\ body.category_id = NeverId
          /\ HandlePutMaterials(db, 5, body).res.status = 500
          /\ HandlePostMaterials(db, body).res.status = 500

-----------------------------------------------------------------------------
(* C27 *)

\* C27: in every reachable state, PUT of a category, a location or a material
\* (with a name and a unit) whose id names no record leaves the store as it was
\* and is answered 200, not 404.
C27_UpdateUnknownIsSilent ==
    /\ \A id \in GuardRequests.categoryIds, name \in GuardRequests.categoryNames :
          LET r == HandlePutCategories(db, id, name) IN
          ~HasId(db.categories, id) => r.db = db /\ r.res.status = 200
    /\ \A id \in GuardRequests.locationIds, name \in GuardRequests.locationNames :
          LET r == HandlePutLocations(db, id, name) IN
          ~HasId(db.locations, id) => r.db = db /\ r.res.status = 200
    /\ \A id \in GuardRequests.materialIds, body \in GuardRequests.materialBodies :
          LET r == HandlePutMaterials(db, id, body) IN
          (~HasId(db.materials, id) /\ body.name # "" /\ body.unit # "")
          => r.db = db /\ r.res.status = 200

\* category 6 and material 5 existed and were deleted; a PUT of either is answered
\* 200 and changes nothing
C27_Witness ==
    /\ db.seq.categories >= 6
    /\ ~HasId(db.categories, 6)
    /\ ~HasId(db.materials, 5)
    /\ HandlePutCategories(db, 6, "Baru").res = Success
    /\ HandlePutCategories(db, 6, "Baru").db = db
    /\ \E body \in GuardRequests.materialBodies :
          body.name # "" /\ HandlePutMaterials(db, 5, body).res = Success

-----------------------------------------------------------------------------
(* C28 *)

\* the names stored in a table
Names(rows) == {r.name : r \in rows}

\* C28 (as stated): in every reachable state whose categories table is empty,
\* initDb completes without error and the store it leaves holds the whole seed:
\* the 5 categories, the 8 locations and the 5 materials, each material naming a
\* stored category.  On a store that had rows before, the seed stops part-way: the
\* seeded location names are still taken, or the new categories get ids above 5
\* while the materials name categories 1 to 5.
C28_ReseedCompletes ==
    Cardinality(db.categories) = 0
    => LET r == initDb(db) IN
       /\ r.ok
       /\ Names(r.db.categories) = {SeedCategories[i] : i \in 1 .. Len(SeedCategories)}
       /\ {SeedLocations[i] : i \in 1 .. Len(SeedLocations)} \subseteq Names(r.db.locations)
       /\ {SeedMaterials[i].name : i \in 1 .. Len(SeedMaterials)} \subseteq Names(r.db.materials)
       /\ \A m \in r.db.materials :
             m.category_id = NULL \/ HasId(r.db.categories, m.category_id)

-----------------------------------------------------------------------------
(* C29 *)

\* no handleTransaction call and no fetchData call of the client is in flight
Settled == client.posts = {} /\ client.refreshes = {}

\* C29 (as stated): whenever every handleTransaction call and every fetchData call
\* of the client has settled, the client's materials, categories, locations and
\* stats are what the server's GET handlers answer from the store as it is now.
\* fetchData calls settle in any order: a refresh issued earlier, answered before a
\* later POST was handled, may store its rows after the later refresh did.
C29_SettledClientShowsStore ==
    Settled =>
       /\ client.materials = HandleGetMaterials(db)
       /\ client.categories = HandleGetCategories(db)
       /\ client.locations = HandleGetLocations(db)
       /\ client.stats \in {<<s>> : s \in HandleGetStats(db)}

-----------------------------------------------------------------------------
(* C30 *)

\* no getUserMedia call of any run of the effect is still pending
AllResolved == \A e \in DOMAIN camera.runs : ~camera.runs[e].pending

\* C30 (as stated): whenever isCameraActive is false and every getUserMedia call
\* has resolved, no acquired stream has a running track.  When the cleanup of a run
\* is called before that run's getUserMedia resolves, its stream is still null and
\* nothing is stopped; the stream that arrives afterwards keeps running.
C30_DeactivatedCameraHasNoStream ==
    (~camera.isCameraActive /\ AllResolved) => camera.running = {}

====
